---- MODULE Spec2Model ----
(***************************************************************************)
(* A model of the OPC Memory MCP server (src/main.py): the resolution of   *)
(* the OPC directory at import, the five tools' argument construction,     *)
(* the spawning of the external script and the normalisation of its        *)
(* result into the response dictionary.                                    *)
(*                                                                         *)
(* Text.  A Python str is a sequence of lexemes.  A lexeme is a single     *)
(* character ("[", " ", "a") or an atomic chunk of text that the code      *)
(* never looks inside ("--type", "Unknown error").  The empty str is <<>>, *)
(* concatenation and f-strings are \o, truthiness of a str is # <<>>.      *)
(***************************************************************************)
EXTENDS Integers, Sequences, FiniteSets, TLC

VARIABLES
    server,       \* position of the module's import: "boot", "serving", "crashed"
    environ,      \* os.environ's CLAUDE_OPC_DIR: [set, val]
    config_file,  \* ~/.claude/opc.json: [state, text]
    fs,           \* the paths that exist on disk
    OPC_DIR,      \* the module global set at import (line 49)
    boot_exc,     \* the exception that ended the import, or "none"
    call          \* per tool call: position, parameters, process, response

vars == <<server, environ, config_file, fs, OPC_DIR, boot_exc, call>>

-----------------------------------------------------------------------------
(* Bounds of the model.                                                    *)

NCalls == 2
MaxStdout == 3
MaxDecode == 7
MaxQuery == 3

-----------------------------------------------------------------------------
(* str helpers.                                                            *)

Whitespace == {" "}

IsSpace(ch) == ch \in Whitespace

\* The first position >= i of s that holds no whitespace (Len(s)+1 if none).
RECURSIVE SkipWs(_, _)
SkipWs(s, i) ==
    IF i <= Len(s) /\ IsSpace(s[i]) THEN SkipWs(s, i + 1) ELSE i

\* The last position <= j of s that holds no whitespace (0 if none).
RECURSIVE SkipWsBack(_, _)
SkipWsBack(s, j) ==
    IF j >= 1 /\ IsSpace(s[j]) THEN SkipWsBack(s, j - 1) ELSE j

\* str.strip()
Strip(s) ==
    LET i == SkipWs(s, 1)
        j == SkipWsBack(s, Len(s))
    IN  IF i > j THEN <<>> ELSE SubSeq(s, i, j)

\* The end of the run of non-whitespace that starts at i.
RECURSIVE WordEnd(_, _)
WordEnd(s, i) ==
    IF i <= Len(s) /\ ~IsSpace(s[i]) THEN WordEnd(s, i + 1) ELSE i - 1

\* str.split(): the maximal runs of non-whitespace, in order.
RECURSIVE SplitFrom(_, _)
SplitFrom(s, i) ==
    LET b == SkipWs(s, i)
    IN  IF b > Len(s) THEN <<>>
        ELSE LET e == WordEnd(s, b)
             IN  <<SubSeq(s, b, e)>> \o SplitFrom(s, e + 1)

Split(s) == SplitFrom(s, 1)

Digit(d) ==
    CASE d = 0 -> "0" [] d = 1 -> "1" [] d = 2 -> "2" [] d = 3 -> "3"
      [] d = 4 -> "4" [] d = 5 -> "5" [] d = 6 -> "6" [] d = 7 -> "7"
      [] d = 8 -> "8" [] d = 9 -> "9"

RECURSIVE StrNat(_)
StrNat(n) ==
    IF n < 10 THEN <<Digit(n)>> ELSE StrNat(n \div 10) \o <<Digit(n % 10)>>

\* str(n) of an int.
StrInt(n) == IF n < 0 THEN <<"-">> \o StrNat(0 - n) ELSE StrNat(n)

\* str(x) of a float given in tenths (2 is 0.2, 10 is 1.0).
StrFloat(tenths) == StrNat(tenths \div 10) \o <<".">> \o <<Digit(tenths % 10)>>

\* All strs of length at most n over an alphabet.
StringsUpTo(alphabet, n) == UNION {[1..k -> alphabet] : k \in 0..n}

-----------------------------------------------------------------------------
(* json.loads.  A decoded value is [t, v]: t its Python type, v its value  *)
(* (a list's elements, an object's <<key, value>> pairs in document order, *)
(* a number, a str).  The grammar is JSON's over the lexemes of the model: *)
(* the digits 0 and 1, the brackets, comma, colon, the literal null and    *)
(* whole string literals.                                                  *)

StringLits == {"\"opc_dir\"", "\"/srv/opc\"", "\"/gone\"", "\"\"", "\"name\""}

Unquote(lit) ==
    CASE lit = "\"opc_dir\"" -> <<"opc_dir">>
      [] lit = "\"/srv/opc\"" -> <<"/srv/opc">>
      [] lit = "\"/gone\"" -> <<"/gone">>
      [] lit = "\"\"" -> <<>>
      [] lit = "\"name\"" -> <<"name">>

None == [t |-> "NoneType", v |-> 0]

ParseFail == [ok |-> FALSE, val |-> None, next |-> 0]

ParseOk(val, next) == [ok |-> TRUE, val |-> val, next |-> next]

\* The int whose digits start at i (a run of the digits 0 and 1 after a
\* leading 1), and where it ends.
RECURSIVE ScanOnes(_, _, _)
ScanOnes(s, i, acc) ==
    IF i <= Len(s) /\ s[i] \in {"0", "1"}
    THEN ScanOnes(s, i + 1, 10 * acc + (IF s[i] = "1" THEN 1 ELSE 0))
    ELSE ParseOk([t |-> "int", v |-> acc], i)

RECURSIVE ParseValue(_, _), ParseElems(_, _, _), ParseMembers(_, _, _)
\* The JSON value that starts at position i of s (no leading whitespace).
ParseValue(s, i) ==
    IF i > Len(s) THEN ParseFail
    ELSE CASE s[i] = "[" ->
                LET j == SkipWs(s, i + 1)
                IN  IF j <= Len(s) /\ s[j] = "]"
                    THEN ParseOk([t |-> "list", v |-> <<>>], j + 1)
                    ELSE ParseElems(s, j, <<>>)
           [] s[i] = "{" ->
                LET j == SkipWs(s, i + 1)
                IN  IF j <= Len(s) /\ s[j] = "}"
                    THEN ParseOk([t |-> "dict", v |-> <<>>], j + 1)
                    ELSE ParseMembers(s, j, <<>>)
           [] s[i] = "0" -> ParseOk([t |-> "int", v |-> 0], i + 1)
           [] s[i] = "1" -> ScanOnes(s, i, 0)
           [] s[i] = "null" -> ParseOk(None, i + 1)
           [] s[i] \in StringLits ->
                ParseOk([t |-> "str", v |-> Unquote(s[i])], i + 1)
           [] OTHER -> ParseFail

\* The rest of an array whose next element starts at i; acc holds the
\* elements read so far.
ParseElems(s, i, acc) ==
    LET e == ParseValue(s, i)
    IN  IF ~e.ok THEN ParseFail
        ELSE LET j == SkipWs(s, e.next)
                 got == Append(acc, e.val)
             IN  IF j > Len(s) THEN ParseFail
                 ELSE IF s[j] = "]" THEN ParseOk([t |-> "list", v |-> got], j + 1)
                 ELSE IF s[j] = "," THEN ParseElems(s, SkipWs(s, j + 1), got)
                 ELSE ParseFail

\* The rest of an object whose next key starts at i.
ParseMembers(s, i, acc) ==
    IF i > Len(s) \/ s[i] \notin StringLits THEN ParseFail
    ELSE LET c == SkipWs(s, i + 1)
         IN  IF c > Len(s) \/ s[c] # ":" THEN ParseFail
             ELSE LET e == ParseValue(s, SkipWs(s, c + 1))
                  IN  IF ~e.ok THEN ParseFail
                      ELSE LET j == SkipWs(s, e.next)
                               got == Append(acc, <<Unquote(s[i]), e.val>>)
                           IN  IF j > Len(s) THEN ParseFail
                               ELSE IF s[j] = "}"
                                    THEN ParseOk([t |-> "dict", v |-> got], j + 1)
                               ELSE IF s[j] = ","
                                    THEN ParseMembers(s, SkipWs(s, j + 1), got)
                               ELSE ParseFail

\* json.loads(s): [ok, val]; ~ok is json.JSONDecodeError.
json_loads(s) ==
    LET e == ParseValue(s, SkipWs(s, 1))
    IN  IF e.ok /\ SkipWs(s, e.next) = Len(s) + 1
        THEN [ok |-> TRUE, val |-> e.val]
        ELSE [ok |-> FALSE, val |-> None]

\* isinstance(x, list)
IsList(x) == x.t = "list"

\* len(x) of a list
PyLen(x) == Len(x.v)

\* bool(x)
Truthy(x) ==
    CASE x.t = "NoneType" -> FALSE
      [] x.t = "int" -> x.v # 0
      [] OTHER -> x.v # <<>>

\* dict.get(key): the last member with that key, None without one.
RECURSIVE DictGetFrom(_, _, _)
DictGetFrom(pairs, key, i) ==
    IF i = 0 THEN None
    ELSE IF pairs[i][1] = key THEN pairs[i][2]
    ELSE DictGetFrom(pairs, key, i - 1)

DictGet(d, key) == DictGetFrom(d.v, key, Len(d.v))

-----------------------------------------------------------------------------
(* get_opc_dir (lines 20-45).  The result is [raised, value]: raised the   *)
(* exception that leaves the function ("none" when it returns), value the  *)
(* path returned.                                                          *)

Fallback == <<"/Users/stephenfeather/opc">>

Returns(path) == [raised |-> "none", value |-> path]

Raises(exc) == [raised |-> exc, value |-> <<>>]

\* Path(p).exists()
PathExists(p, disk) == p \in disk

\* Lines 34-42: the config file branch; [found, raised, value].
ConfigLookup(cfg, disk) ==
    IF cfg.state = "absent" THEN [found |-> FALSE, raised |-> "none", value |-> <<>>]
    ELSE IF cfg.state = "unreadable"
         \* read_text raises OSError, which line 41 swallows
         THEN [found |-> FALSE, raised |-> "none", value |-> <<>>]
    ELSE LET parsed == json_loads(cfg.text)
         IN  IF ~parsed.ok
             \* json.JSONDecodeError, swallowed by line 41
             THEN [found |-> FALSE, raised |-> "none", value |-> <<>>]
             ELSE IF parsed.val.t # "dict"
             \* config.get on a list, int, str or None
             THEN [found |-> FALSE, raised |-> "AttributeError", value |-> <<>>]
             ELSE LET opc_dir == DictGet(parsed.val, <<"opc_dir">>)
                  IN  IF ~Truthy(opc_dir)
                      THEN [found |-> FALSE, raised |-> "none", value |-> <<>>]
                      ELSE IF opc_dir.t # "str"
                      \* Path(opc_dir) of a non-str
                      THEN [found |-> FALSE, raised |-> "TypeError", value |-> <<>>]
                      ELSE IF PathExists(opc_dir.v, disk)
                      THEN [found |-> TRUE, raised |-> "none", value |-> opc_dir.v]
                      ELSE [found |-> FALSE, raised |-> "none", value |-> <<>>]

get_opc_dir(env, cfg, disk) ==
    IF env.set /\ env.val # <<>> /\ PathExists(env.val, disk)
    THEN Returns(env.val)
    ELSE LET c == ConfigLookup(cfg, disk)
         IN  IF c.raised # "none" THEN Raises(c.raised)
             ELSE IF c.found THEN Returns(c.value)
             ELSE Returns(Fallback)

-----------------------------------------------------------------------------
(* Parameter defaults of the tools (the Field(default=...) declarations).  *)

DefaultK == 5
DefaultThreshold == 2
DefaultLimit == 5

\* run_opc_script (lines 52-62): the command line and working directory of
\* the process it spawns.
run_opc_script(script, args) ==
    [cmd |-> <<<<"uv">>, <<"run">>, <<"python">>, <<"scripts/core/">> \o script>> \o args,
     cwd |-> OPC_DIR,
     timeout |-> 60]

UnknownError == <<"Unknown error">>

\* `x or default` of two strs
StrOr(x, default) == IF x # <<>> THEN x ELSE default

-----------------------------------------------------------------------------
(* The five tools.  Each is cut where it blocks in subprocess.run: the     *)
(* part before builds the arguments (or returns a validation failure), the *)
(* part after turns the CompletedProcess into the response dictionary.     *)

Built(script, args) ==
    [valid |-> TRUE, script |-> script, args |-> args, response |-> [success |-> FALSE]]

Rejected(response) ==
    [valid |-> FALSE, script |-> <<>>, args |-> <<>>, response |-> response]

\* store_learning, lines 82-94
store_learning_args(p) ==
    Built(<<"store_learning.py">>,
          <<<<"--session-id">>, p.session_id, <<"--type">>, p.learning_type,
            <<"--content">>, p.content, <<"--confidence">>, p.confidence>>
          \o (IF p.context # <<>> THEN <<<<"--context">>, p.context>> ELSE <<>>)
          \o (IF p.tags # <<>> THEN <<<<"--tags">>, p.tags>> ELSE <<>>))

\* store_learning, lines 96-106
store_learning_response(result) ==
    IF result.returncode # 0
    THEN [success |-> FALSE,
          error |-> StrOr(result.stderr, UnknownError),
          stdout |-> result.stdout]
    ELSE [success |-> TRUE,
          message |-> StrOr(Strip(result.stdout), <<"Learning stored successfully">>)]

\* recall_learnings, lines 118-129
recall_learnings_args(p) ==
    Built(<<"recall_learnings.py">>,
          <<<<"--query">>, p.query, <<"--k">>, StrInt(p.k),
            <<"--threshold">>, StrFloat(p.threshold)>>
          \o (IF p.text_only THEN <<<<"--text-only">>>> ELSE <<>>)
          \o (IF p.vector_only THEN <<<<"--vector-only">>>> ELSE <<>>))

\* recall_learnings with the isinstance test of line 144 left out: the count
\* of a decoded value is always 1.
recall_learnings_response_count_one(result) ==
    IF result.returncode # 0
    THEN [success |-> FALSE,
          error |-> StrOr(result.stderr, UnknownError),
          stdout |-> result.stdout]
    ELSE LET learnings == json_loads(result.stdout)
         IN  IF learnings.ok
             THEN [success |-> TRUE, learnings |-> learnings.val, count |-> 1]
             ELSE [success |-> TRUE, raw_output |-> Strip(result.stdout)]

\* recall_learnings, lines 131-151
recall_learnings_response(result) ==
    IF result.returncode # 0
    THEN [success |-> FALSE,
          error |-> StrOr(result.stderr, UnknownError),
          stdout |-> result.stdout]
    ELSE LET learnings == json_loads(result.stdout)
         IN  IF learnings.ok
             THEN [success |-> TRUE,
                   learnings |-> learnings.val,
                   count |-> IF IsList(learnings.val) THEN PyLen(learnings.val) ELSE 1]
             ELSE [success |-> TRUE, raw_output |-> Strip(result.stdout)]

\* index_artifacts without the checks of lines 168 and 176: every mode reaches
\* run_opc_script.
index_artifacts_args_unchecked(p) ==
    IF p.mode = <<"file">>
    THEN Built(<<"artifact_index.py">>, <<<<"--file">>, p.file_path>>)
    ELSE Built(<<"artifact_index.py">>, <<<<"--">> \o p.mode>>)

\* index_artifacts, lines 167-182
index_artifacts_args(p) ==
    IF p.mode = <<"file">>
    THEN IF p.file_path = <<>>
         THEN Rejected([success |-> FALSE,
                        error |-> <<"file_path", " is required when mode=file">>])
         ELSE Built(<<"artifact_index.py">>, <<<<"--file">>, p.file_path>>)
    ELSE IF p.mode \in {<<"all">>, <<"handoffs">>, <<"plans">>, <<"continuity">>}
    THEN Built(<<"artifact_index.py">>, <<<<"--">> \o p.mode>>)
    ELSE Rejected([success |-> FALSE,
                   error |-> <<"Invalid mode: ">> \o p.mode
                             \o <<". Use: all, handoffs, plans, continuity, or file">>])

\* index_artifacts, lines 184-194
index_artifacts_response(result) ==
    IF result.returncode # 0
    THEN [success |-> FALSE,
          error |-> StrOr(result.stderr, UnknownError),
          stdout |-> result.stdout]
    ELSE [success |-> TRUE,
          message |-> StrOr(Strip(result.stdout), <<"Artifacts indexed successfully">>)]

\* mark_handoff, lines 209-216
mark_handoff_args(p) ==
    Built(<<"artifact_mark.py">>,
          <<<<"--outcome">>, p.outcome>>
          \o (IF p.handoff_id # <<>> THEN <<<<"--id">>, p.handoff_id>> ELSE <<>>)
          \o (IF p.notes # <<>> THEN <<<<"--notes">>, p.notes>> ELSE <<>>))

\* mark_handoff with the stdout of a failure stripped like that of a success.
mark_handoff_response_stripped(result) ==
    IF result.returncode # 0
    THEN [success |-> FALSE,
          error |-> StrOr(result.stderr, UnknownError),
          stdout |-> Strip(result.stdout)]
    ELSE [success |-> TRUE,
          message |-> StrOr(Strip(result.stdout), <<"Handoff marked successfully">>)]

\* mark_handoff, lines 218-228
mark_handoff_response(result) ==
    IF result.returncode # 0
    THEN [success |-> FALSE,
          error |-> StrOr(result.stderr, UnknownError),
          stdout |-> result.stdout]
    ELSE [success |-> TRUE,
          message |-> StrOr(Strip(result.stdout), <<"Handoff marked successfully">>)]

\* query_artifacts with the else of line 251 lost: the query and the filters
\* are added after the identifier too.
query_artifacts_args_no_else(p) ==
    Built(<<"artifact_query.py">>,
          (IF p.by_span_id # <<>> THEN <<<<"--by-span-id">>, p.by_span_id>> ELSE <<>>)
          \o Split(p.query)
          \o <<<<"--type">>, p.artifact_type>>
          \o <<<<"--limit">>, StrInt(p.limit)>>
          \o (IF p.outcome # <<>> THEN <<<<"--outcome">>, p.outcome>> ELSE <<>>)
          \o (IF p.with_content THEN <<<<"--with-content">>>> ELSE <<>>)
          \o <<<<"--json">>>>)

\* query_artifacts, lines 247-263
query_artifacts_args(p) ==
    Built(<<"artifact_query.py">>,
          (IF p.by_span_id # <<>>
           THEN <<<<"--by-span-id">>, p.by_span_id>>
           ELSE Split(p.query)
                \o <<<<"--type">>, p.artifact_type>>
                \o <<<<"--limit">>, StrInt(p.limit)>>
                \o (IF p.outcome # <<>> THEN <<<<"--outcome">>, p.outcome>> ELSE <<>>))
          \o (IF p.with_content THEN <<<<"--with-content">>>> ELSE <<>>)
          \o <<<<"--json">>>>)

\* query_artifacts with a stdout that does not decode reported as a failure.
query_artifacts_response_strict(result) ==
    IF result.returncode # 0
    THEN [success |-> FALSE,
          error |-> StrOr(result.stderr, UnknownError),
          stdout |-> result.stdout]
    ELSE LET artifacts == json_loads(result.stdout)
         IN  IF artifacts.ok
             THEN [success |-> TRUE,
                   artifacts |-> artifacts.val,
                   count |-> IF IsList(artifacts.val) THEN PyLen(artifacts.val) ELSE 1]
             ELSE [success |-> FALSE,
                   error |-> <<"Invalid JSON">>,
                   stdout |-> result.stdout]

\* query_artifacts, lines 265-284
query_artifacts_response(result) ==
    IF result.returncode # 0
    THEN [success |-> FALSE,
          error |-> StrOr(result.stderr, UnknownError),
          stdout |-> result.stdout]
    ELSE LET artifacts == json_loads(result.stdout)
         IN  IF artifacts.ok
             THEN [success |-> TRUE,
                   artifacts |-> artifacts.val,
                   count |-> IF IsList(artifacts.val) THEN PyLen(artifacts.val) ELSE 1]
             ELSE [success |-> TRUE, raw_output |-> Strip(result.stdout)]

Tools == {"store_learning", "recall_learnings", "index_artifacts",
          "mark_handoff", "query_artifacts"}

\* The registered tool's code up to its call of run_opc_script.
ToolArgs(tool, p) ==
    CASE tool = "store_learning" -> store_learning_args(p)
      [] tool = "recall_learnings" -> recall_learnings_args(p)
      [] tool = "index_artifacts" -> index_artifacts_args(p)
      [] tool = "mark_handoff" -> mark_handoff_args(p)
      [] tool = "query_artifacts" -> query_artifacts_args(p)

\* The registered tool's code after run_opc_script has returned.
ToolResponse(tool, result) ==
    CASE tool = "store_learning" -> store_learning_response(result)
      [] tool = "recall_learnings" -> recall_learnings_response(result)
      [] tool = "index_artifacts" -> index_artifacts_response(result)
      [] tool = "mark_handoff" -> mark_handoff_response(result)
      [] tool = "query_artifacts" -> query_artifacts_response(result)

-----------------------------------------------------------------------------
(* State of a tool call.                                                   *)

NoResult == [kind |-> "none", returncode |-> 0, stdout |-> <<>>, stderr |-> <<>>]

Completed(returncode, stdout, stderr) ==
    [kind |-> "completed", returncode |-> returncode, stdout |-> stdout, stderr |-> stderr]

TimedOut == [kind |-> "timeout", returncode |-> 0, stdout |-> <<>>, stderr |-> <<>>]

NoResponse == [pending |-> TRUE]

IdleCall ==
    [pc |-> "idle", tool |-> "none", params |-> [none |-> TRUE],
     cmd |-> <<>>, cwd |-> <<>>, spawned |-> 0,
     result |-> NoResult, response |-> NoResponse, exc |-> "none"]

-----------------------------------------------------------------------------
(* Actions.                                                                *)

\* Line 49: the import of the module runs get_opc_dir once.
Startup ==
    /\ server = "boot"
    /\ LET r == get_opc_dir(environ, config_file, fs)
       IN  IF r.raised = "none"
           THEN /\ server' = "serving"
                /\ OPC_DIR' = r.value
                /\ boot_exc' = "none"
           ELSE /\ server' = "crashed"
                /\ boot_exc' = r.raised
                /\ UNCHANGED OPC_DIR
    /\ UNCHANGED <<environ, config_file, fs, call>>

\* The host calls a tool: the tool builds its arguments and either returns a
\* validation failure or reaches subprocess.run, which spawns the script in
\* OPC_DIR (and raises FileNotFoundError when that directory is missing).
Invoke(c, invocations) ==
    /\ server = "serving"
    /\ call[c].pc = "idle"
    /\ \E i \in invocations :
         LET b == ToolArgs(i.tool, i.params)
             run == run_opc_script(b.script, b.args)
         IN  call' = [call EXCEPT ![c] =
                 IF ~b.valid
                 THEN [@ EXCEPT !.pc = "returned", !.tool = i.tool,
                                !.params = i.params, !.response = b.response]
                 ELSE IF ~PathExists(run.cwd, fs)
                 THEN [@ EXCEPT !.pc = "raised", !.tool = i.tool,
                                !.params = i.params, !.cmd = run.cmd,
                                !.exc = "FileNotFoundError"]
                 ELSE [@ EXCEPT !.pc = "running", !.tool = i.tool,
                                !.params = i.params, !.cmd = run.cmd,
                                !.cwd = run.cwd, !.spawned = @ + 1]]
    /\ UNCHANGED <<server, environ, config_file, fs, OPC_DIR, boot_exc>>

\* Complete with the process result kept in one place shared by all calls:
\* a call that returns after another has finished reads that one's result.
Complete_shared_result(c, results) ==
    /\ call[c].pc = "running"
    /\ \E result \in results :
         LET others == {d \in DOMAIN call : d # c /\ call[d].result.kind = "completed"}
             seen == IF others = {} THEN result
                     ELSE call[CHOOSE d \in others : TRUE].result
         IN  call' = [call EXCEPT ![c] =
                 [@ EXCEPT !.pc = "returned", !.result = result,
                           !.response = ToolResponse(call[c].tool, seen)]]
    /\ UNCHANGED <<server, environ, config_file, fs, OPC_DIR, boot_exc>>

\* The script exits within the timeout: subprocess.run returns and the tool
\* builds its response.
Complete(c, results) ==
    /\ call[c].pc = "running"
    /\ \E result \in results :
         call' = [call EXCEPT ![c] =
             [@ EXCEPT !.pc = "returned", !.result = result,
                       !.response = ToolResponse(call[c].tool, result)]]
    /\ UNCHANGED <<server, environ, config_file, fs, OPC_DIR, boot_exc>>

\* The script is still running after 60 seconds: subprocess.run kills it and
\* raises TimeoutExpired, which no tool catches.
Timeout(c) ==
    /\ call[c].pc = "running"
    /\ call' = [call EXCEPT ![c] =
           [@ EXCEPT !.pc = "raised", !.result = TimedOut,
                     !.exc = "TimeoutExpired"]]
    /\ UNCHANGED <<server, environ, config_file, fs, OPC_DIR, boot_exc>>

-----------------------------------------------------------------------------
(* Inputs.                                                                 *)

Unset == [set |-> FALSE, val |-> <<>>]

SetTo(val) == [set |-> TRUE, val |-> val]

Absent == [state |-> "absent", text |-> <<>>]

Unreadable == [state |-> "unreadable", text |-> <<>>]

Holds(text) == [state |-> "file", text |-> text]

SrvOpc == <<"/srv/opc">>

Gone == <<"/gone">>

\* Contents of ~/.claude/opc.json.
ConfigTexts ==
    { <<>>,
      <<"{">>,
      <<"{", "}">>,
      <<"{", "\"opc_dir\"", ":", "\"/srv/opc\"", "}">>,
      <<"{", " ", "\"opc_dir\"", ":", " ", "\"/srv/opc\"", " ", "}", " ">>,
      <<"{", "\"opc_dir\"", ":", "\"/gone\"", "}">>,
      <<"{", "\"opc_dir\"", ":", "\"\"", "}">>,
      <<"{", "\"opc_dir\"", ":", "null", "}">>,
      <<"{", "\"opc_dir\"", ":", "1", "}">>,
      <<"{", "\"opc_dir\"", ":", "0", "}">>,
      <<"{", "\"opc_dir\"", ":", "[", "\"/srv/opc\"", "]", "}">>,
      <<"{", "\"opc_dir\"", ":", "[", "]", "}">>,
      <<"{", "\"opc_dir\"", ":", "\"/gone\"", ",", "\"opc_dir\"", ":", "\"/srv/opc\"", "}">>,
      <<"{", "\"name\"", ":", "\"/srv/opc\"", "}">>,
      <<"{", "\"opc_dir\"", "\"/srv/opc\"", "}">>,
      <<"{", "\"opc_dir\"", ":", "\"/srv/opc\"", ",", "}">>,
      <<"[", "]">>,
      <<"[", "\"/srv/opc\"", "]">>,
      <<"1">>,
      <<"\"/srv/opc\"">>,
      <<"null">> }

Environments ==
    [environ : {Unset, SetTo(<<>>), SetTo(SrvOpc), SetTo(Gone)},
     config_file : {Absent, Unreadable} \cup {Holds(t) : t \in ConfigTexts},
     fs : SUBSET {SrvOpc, Fallback}]

\* A few environments, for the specifications that are about the tools.
FewEnvironments ==
    { [environ |-> SetTo(SrvOpc), config_file |-> Absent, fs |-> {SrvOpc, Fallback}],
      [environ |-> Unset, config_file |-> Absent, fs |-> {} ] }

OneEnvironment ==
    { [environ |-> SetTo(SrvOpc), config_file |-> Absent, fs |-> {SrvOpc, Fallback}] }

StoreParams(content, context, tags) ==
    [content |-> content, learning_type |-> <<"WORKING_SOLUTION">>,
     session_id |-> <<"mcp-session">>, context |-> context, tags |-> tags,
     confidence |-> <<"medium">>]

RecallParams(query, k, text_only, vector_only, threshold) ==
    [query |-> query, k |-> k, text_only |-> text_only,
     vector_only |-> vector_only, threshold |-> threshold]

IndexParams(mode, file_path) == [mode |-> mode, file_path |-> file_path]

MarkParams(outcome, handoff_id, notes) ==
    [outcome |-> outcome, handoff_id |-> handoff_id, notes |-> notes]

QueryParams(query, artifact_type, outcome, limit, with_content, by_span_id) ==
    [query |-> query, artifact_type |-> artifact_type, outcome |-> outcome,
     limit |-> limit, with_content |-> with_content, by_span_id |-> by_span_id]

Invocation(tool, p) == [tool |-> tool, params |-> p]

Modes == {<<"all">>, <<"handoffs">>, <<"plans">>, <<"continuity">>, <<"file">>,
          <<"bogus">>, <<"ALL">>, <<>>}

QueryChars == {"a", "b", " "}

Queries == StringsUpTo(QueryChars, MaxQuery)

Outcomes == {<<"SUCCEEDED">>, <<"PARTIAL_PLUS">>, <<"PARTIAL_MINUS">>, <<"FAILED">>}

\* One default call of each tool.
DefaultInvocations ==
    { Invocation("store_learning", StoreParams(<<"note">>, <<>>, <<>>)),
      Invocation("recall_learnings",
                 RecallParams(<<"a">>, DefaultK, FALSE, FALSE, DefaultThreshold)),
      Invocation("index_artifacts", IndexParams(<<"all">>, <<>>)),
      Invocation("mark_handoff", MarkParams(<<"FAILED">>, <<>>, <<>>)),
      Invocation("query_artifacts",
                 QueryParams(<<"a">>, <<"all">>, <<>>, DefaultLimit, FALSE, <<>>)) }

\* The calls of the specification of overlapping calls.
FewInvocations ==
    DefaultInvocations
    \cup { Invocation("index_artifacts", IndexParams(m, f)) :
             m \in {<<"file">>, <<"bogus">>, <<>>}, f \in {<<>>, <<"plan.md">>} }
    \cup { Invocation("query_artifacts",
                      QueryParams(<<"a">>, <<"all">>, <<>>, DefaultLimit, FALSE, <<"span-1">>)) }

\* The calls of the specification of argument construction.
ManyInvocations ==
    { Invocation("store_learning", StoreParams(c, x, t)) :
        c \in {<<"note">>, <<>>}, x \in {<<>>, <<"ctx">>}, t \in {<<>>, <<"t1,t2">>} }
    \cup { Invocation("recall_learnings", RecallParams(q, k, t, v, th)) :
             q \in {<<>>, <<"a">>}, k \in {0, 3, DefaultK}, t \in BOOLEAN,
             v \in BOOLEAN, th \in {0, DefaultThreshold, 10} }
    \cup { Invocation("index_artifacts", IndexParams(m, f)) :
             m \in Modes, f \in {<<>>, <<"plan.md">>} }
    \cup { Invocation("mark_handoff", MarkParams(o, h, n)) :
             o \in Outcomes, h \in {<<>>, <<"h-1">>}, n \in {<<>>, <<"why">>} }
    \cup { Invocation("query_artifacts", QueryParams(q, t, o, l, w, s)) :
             q \in Queries, t \in {<<"all">>, <<"plans">>, <<>>},
             o \in {<<>>, <<"FAILED">>}, l \in {0, 3, DefaultLimit},
             w \in BOOLEAN, s \in {<<>>, <<"span-1">>, <<"a">>} }

OutChars == {"[", "]", ",", "1", " "}

\* What a script may leave behind when it exits.
FewResults ==
    { Completed(0, <<"[", "]">>, <<>>),
      Completed(0, <<"o", "k", " ">>, <<>>),
      Completed(1, <<>>, <<"handoff not found">>) }

ManyResults ==
    { Completed(rc, out, err) :
        rc \in {0, 1, 2},
        out \in StringsUpTo(OutChars, MaxStdout),
        err \in {<<>>, <<"handoff not found">>} }

DecodeResults ==
    { Completed(0, out, <<>>) : out \in StringsUpTo(OutChars, MaxDecode) }

-----------------------------------------------------------------------------
(* Specifications.                                                         *)

InitWith(envs, calls) ==
    /\ server = "boot"
    /\ \E e \in envs :
         /\ environ = e.environ
         /\ config_file = e.config_file
         /\ fs = e.fs
    /\ OPC_DIR = <<>>
    /\ boot_exc = "none"
    /\ call = [c \in calls |-> IdleCall]

Calls == 1..NCalls

\* Overlapping tool calls.
Init == InitWith(FewEnvironments, Calls)

Next ==
    \/ Startup
    \/ \E c \in Calls : Invoke(c, FewInvocations)
    \/ \E c \in Calls : Complete(c, FewResults)
    \/ \E c \in Calls : Timeout(c)

Spec == Init /\ [][Next]_vars

\* The resolution of the OPC directory, over many environments.
InitConfig == InitWith(Environments, {1})

NextConfig == Startup

SpecConfig == InitConfig /\ [][NextConfig]_vars

\* Argument construction, over many parameter sets.
InitBuild == InitWith(OneEnvironment, {1})

NextBuild ==
    \/ Startup
    \/ Invoke(1, ManyInvocations)

SpecBuild == InitBuild /\ [][NextBuild]_vars

\* One call of each tool, over many process results.
InitNormalize == InitWith(OneEnvironment, {1})

NextNormalize ==
    \/ Startup
    \/ Invoke(1, FewInvocations)
    \/ Complete(1, ManyResults)
    \/ Timeout(1)

SpecNormalize == InitNormalize /\ [][NextNormalize]_vars

\* The two tools that decode stdout, over longer outputs of a script that
\* exited with status 0.
DecodeInvocations ==
    { i \in DefaultInvocations : i.tool \in {"recall_learnings", "query_artifacts"} }

InitDecode == InitWith(OneEnvironment, {1})

NextDecode ==
    \/ Startup
    \/ Invoke(1, DecodeInvocations)
    \/ Complete(1, DecodeResults)

SpecDecode == InitDecode /\ [][NextDecode]_vars

-----------------------------------------------------------------------------
(* Vocabulary of the properties.                                           *)

Range(seq) == {seq[i] : i \in 1..Len(seq)}

\* The arguments the tool passed to run_opc_script: the command line without
\* "uv run python scripts/core/<script>".
ArgsOf(k) == SubSeq(k.cmd, 5, Len(k.cmd))

Has(args, token) == token \in Range(args)

\* flag is in args and value follows it immediately.
HasOption(args, flag, value) ==
    \E i \in 1..(Len(args) - 1) : args[i] = flag /\ args[i + 1] = value

\* part occurs in text as a contiguous piece.
Occurs(part, text) ==
    \E i \in 1..(Len(text) + 1) :
        /\ i + Len(part) - 1 <= Len(text)
        /\ SubSeq(text, i, i + Len(part) - 1) = part

AllSpace(s) == \A i \in 1..Len(s) : s[i] \in Whitespace

\* t is s without its leading and trailing whitespace.
TrimmedOf(t, s) ==
    /\ t = <<>> \/ (t[1] \notin Whitespace /\ t[Len(t)] \notin Whitespace)
    /\ \E i \in 0..Len(s) :
         /\ i + Len(t) <= Len(s)
         /\ AllSpace(SubSeq(s, 1, i))
         /\ SubSeq(s, i + 1, i + Len(t)) = t
         /\ AllSpace(SubSeq(s, i + Len(t) + 1, Len(s)))

\* The number of elements of the array that the JSON text s holds, counted
\* without decoding it: one more than the commas directly inside the outer
\* brackets, or none when the brackets enclose only whitespace.
RECURSIVE CommasAtDepthOne(_, _, _)
CommasAtDepthOne(s, i, depth) ==
    IF i > Len(s) THEN 0
    ELSE IF s[i] = "[" THEN CommasAtDepthOne(s, i + 1, depth + 1)
    ELSE IF s[i] = "]" THEN CommasAtDepthOne(s, i + 1, depth - 1)
    ELSE (IF s[i] = "," /\ depth = 1 THEN 1 ELSE 0) + CommasAtDepthOne(s, i + 1, depth)

ElementsWritten(s) ==
    LET t == Strip(s)
    IN  IF AllSpace(SubSeq(t, 2, Len(t) - 1)) THEN 0
        ELSE 1 + CommasAtDepthOne(t, 1, 0)

Finished(k) == k.pc = "returned" /\ k.result.kind = "completed"

Decoding == {"recall_learnings", "query_artifacts"}

\* The key under which a decoding tool returns the decoded value.
PayloadKey(tool) == IF tool = "recall_learnings" THEN "learnings" ELSE "artifacts"

PayloadOf(k) ==
    IF k.tool = "recall_learnings" THEN k.response.learnings ELSE k.response.artifacts

PassesValidation(k) ==
    \/ k.tool # "index_artifacts"
    \/ k.params.mode \in {<<"all">>, <<"handoffs">>, <<"plans">>, <<"continuity">>}
    \/ k.params.mode = <<"file">> /\ k.params.file_path # <<>>

-----------------------------------------------------------------------------
(* C1.  When the script does not finish within the 60 seconds, the tool    *)
(* call returns a failure response (success = false); no exception leaves  *)
(* the tool function.                                                      *)
C1_TimeoutReturnsFailure ==
    \A c \in DOMAIN call :
        call[c].result.kind = "timeout" =>
            /\ call[c].pc = "returned"
            /\ call[c].exc = "none"
            /\ call[c].response.success = FALSE

-----------------------------------------------------------------------------
(* C2.  Validation precedes spawning: index_artifacts with mode "file" and *)
(* an empty file_path, or with a mode outside the accepted five, returns a *)
(* failure naming the missing field or the invalid value and spawns no     *)
(* process; a call that passes validation has spawned exactly one process  *)
(* when its response is returned.                                          *)
C2_ValidationPrecedesSpawning ==
    \A c \in DOMAIN call :
        LET k == call[c]
        IN  /\ k.spawned <= 1
            /\ k.pc = "idle" => k.spawned = 0
            /\ k.pc = "running" => k.spawned = 1
            /\ k.pc = "returned" /\ PassesValidation(k) =>
                   k.spawned = 1 /\ k.result.kind = "completed"
            /\ k.pc = "returned" /\ ~PassesValidation(k) =>
                   /\ k.spawned = 0
                   /\ k.cmd = <<>>
                   /\ k.response.success = FALSE
                   /\ IF k.params.mode = <<"file">>
                      THEN Has(k.response.error, "file_path")
                      ELSE /\ k.response.error[1] = "Invalid mode: "
                           /\ Occurs(k.params.mode, Tail(k.response.error))

C2_Witness ==
    \E c, d \in DOMAIN call :
        /\ call[c].pc = "returned"
        /\ call[c].tool = "index_artifacts"
        /\ call[c].params.mode = <<"file">>
        /\ call[c].params.file_path = <<>>
        /\ call[c].spawned = 0
        /\ call[d].pc = "returned"
        /\ call[d].tool = "index_artifacts"
        /\ call[d].params.mode = <<"file">>
        /\ call[d].params.file_path = <<"plan.md">>
        /\ call[d].spawned = 1

-----------------------------------------------------------------------------
(* C3.  For every tool and every process that ran to its end, the response *)
(* has success = true exactly when the exit status is 0; for the two       *)
(* decoding tools, exit status 0 with a stdout that is not JSON gives a    *)
(* success response whose raw_output is stdout without its leading and     *)
(* trailing whitespace.                                                    *)
C3_SuccessIffExitZero ==
    \A c \in DOMAIN call :
        LET k == call[c]
        IN  Finished(k) =>
              /\ k.response.success = (k.result.returncode = 0)
              /\ ( /\ k.tool \in Decoding
                   /\ k.result.returncode = 0
                   /\ ~json_loads(k.result.stdout).ok )
                 => /\ DOMAIN k.response = {"success", "raw_output"}
                    /\ TrimmedOf(k.response.raw_output, k.result.stdout)

C3_Witness ==
    \E c \in DOMAIN call :
        /\ Finished(call[c])
        /\ call[c].tool = "query_artifacts"
        /\ call[c].result.returncode = 0
        /\ call[c].result.stdout = <<" ", ",", " ">>
        /\ call[c].response = [success |-> TRUE, raw_output |-> <<",">>]

-----------------------------------------------------------------------------
(* C4.  For every tool and every process that ends with a non-zero exit    *)
(* status, the response is a failure whose error is the captured stderr,   *)
(* or "Unknown error" when stderr is empty, and whose stdout is the        *)
(* captured stdout as it is.                                               *)
C4_FailureCarriesStderrAndStdout ==
    \A c \in DOMAIN call :
        LET k == call[c]
        IN  Finished(k) /\ k.result.returncode # 0 =>
              k.response =
                [success |-> FALSE,
                 error |-> IF k.result.stderr = <<>>
                           THEN <<"Unknown error">> ELSE k.result.stderr,
                 stdout |-> k.result.stdout]

C4_Witness ==
    \E c \in DOMAIN call :
        /\ Finished(call[c])
        /\ call[c].tool = "mark_handoff"
        /\ call[c].result.returncode = 1
        /\ call[c].result.stderr = <<>>
        /\ call[c].result.stdout = <<" ", "1", " ">>
        /\ call[c].response.stdout = <<" ", "1", " ">>
        /\ call[c].response.error = <<"Unknown error">>

-----------------------------------------------------------------------------
(* C5.  In query_artifacts with a non-empty by_span_id the arguments are   *)
(* --by-span-id and the identifier, then --with-content if asked for, then *)
(* --json: nothing of the query and none of --type, --limit, --outcome,    *)
(* whatever query, artifact_type, outcome and limit are; the call is not   *)
(* rejected.                                                               *)
C5_SpanIdBypassesQueryAndFilters ==
    \A c \in DOMAIN call :
        LET k == call[c]
        IN  ( /\ k.tool = "query_artifacts"
              /\ k.pc # "idle"
              /\ k.params.by_span_id # <<>> )
            => /\ k.pc = "running"
               /\ ArgsOf(k) =
                     <<<<"--by-span-id">>, k.params.by_span_id>>
                     \o (IF k.params.with_content THEN <<<<"--with-content">>>> ELSE <<>>)
                     \o <<<<"--json">>>>
               /\ \A i \in 1..Len(ArgsOf(k)) :
                     i # 2 =>
                       ArgsOf(k)[i] \in
                         {<<"--by-span-id">>, <<"--with-content">>, <<"--json">>}

C5_Witness ==
    \E c \in DOMAIN call :
        /\ call[c].tool = "query_artifacts"
        /\ call[c].pc = "running"
        /\ call[c].params.by_span_id = <<"a">>
        /\ call[c].params.query = <<"a", " ", "b">>
        /\ call[c].params.artifact_type = <<"plans">>
        /\ call[c].params.outcome = <<"FAILED">>
        /\ call[c].params.limit = 3
        /\ call[c].params.with_content

-----------------------------------------------------------------------------
(* C6.  For every tool and every valid parameter set, the arguments hold   *)
(* every required parameter's tokens and no token of an optional parameter *)
(* whose value is its empty or default sentinel (store: context, tags;     *)
(* recall: text_only, vector_only; mark: handoff_id, notes; query:         *)
(* artifact_type, outcome, limit, with_content).                           *)
C6_RequiredPresentOptionalOmitted ==
    \A c \in DOMAIN call :
        LET k == call[c]
            p == k.params
            a == ArgsOf(k)
        IN  k.pc = "running" =>
              CASE k.tool = "store_learning" ->
                     /\ HasOption(a, <<"--session-id">>, p.session_id)
                     /\ HasOption(a, <<"--type">>, p.learning_type)
                     /\ HasOption(a, <<"--content">>, p.content)
                     /\ HasOption(a, <<"--confidence">>, p.confidence)
                     /\ p.context = <<>> => ~Has(a, <<"--context">>)
                     /\ p.tags = <<>> => ~Has(a, <<"--tags">>)
                [] k.tool = "recall_learnings" ->
                     /\ HasOption(a, <<"--query">>, p.query)
                     /\ Has(a, <<"--k">>)
                     /\ Has(a, <<"--threshold">>)
                     /\ ~p.text_only => ~Has(a, <<"--text-only">>)
                     /\ ~p.vector_only => ~Has(a, <<"--vector-only">>)
                [] k.tool = "index_artifacts" ->
                     IF p.mode = <<"file">>
                     THEN HasOption(a, <<"--file">>, p.file_path)
                     ELSE Has(a, <<"--">> \o p.mode)
                [] k.tool = "mark_handoff" ->
                     /\ HasOption(a, <<"--outcome">>, p.outcome)
                     /\ p.handoff_id = <<>> => ~Has(a, <<"--id">>)
                     /\ p.notes = <<>> => ~Has(a, <<"--notes">>)
                [] k.tool = "query_artifacts" ->
                     /\ p.by_span_id # <<>> => HasOption(a, <<"--by-span-id">>, p.by_span_id)
                     /\ p.artifact_type \in {<<>>, <<"all">>} => ~Has(a, <<"--type">>)
                     /\ p.outcome = <<>> => ~Has(a, <<"--outcome">>)
                     /\ p.limit \in {0, DefaultLimit} => ~Has(a, <<"--limit">>)
                     /\ ~p.with_content => ~Has(a, <<"--with-content">>)

-----------------------------------------------------------------------------
(* C7.  get_opc_dir never raises, whatever the override variable and the   *)
(* settings file hold, and returns the hardcoded fallback when neither     *)
(* names an existing path.                                                 *)
C7_ResolutionNeverRaises ==
    /\ server # "crashed"
    /\ boot_exc = "none"
    /\ server = "serving" /\ OPC_DIR \notin fs => OPC_DIR = Fallback

-----------------------------------------------------------------------------
(* C8.  For the two decoding tools, exit status 0 and a stdout that is     *)
(* JSON, the success response carries the decoded value and a count: the   *)
(* number of elements of a list, 1 for anything else; "[]" gives the empty *)
(* list with count 0, a 3-element array gives count 3.                     *)
C8_DecodedPayloadAndCount ==
    \A c \in DOMAIN call :
        LET k == call[c]
            out == k.result.stdout
        IN  ( /\ Finished(k)
              /\ k.tool \in Decoding
              /\ k.result.returncode = 0
              /\ json_loads(out).ok )
            => /\ k.response.success = TRUE
               /\ DOMAIN k.response = {"success", PayloadKey(k.tool), "count"}
               /\ PayloadOf(k) = json_loads(out).val
               /\ k.response.count =
                     IF PayloadOf(k).t = "list" THEN Len(PayloadOf(k).v) ELSE 1
               /\ PayloadOf(k).t = "list" => k.response.count = ElementsWritten(out)
               /\ Strip(out) = <<"[", "]">> =>
                     /\ PayloadOf(k) = [t |-> "list", v |-> <<>>]
                     /\ k.response.count = 0
               /\ out = <<"[", "1", ",", "1", ",", "1", "]">> =>
                     /\ PayloadOf(k).v = <<[t |-> "int", v |-> 1], [t |-> "int", v |-> 1],
                                           [t |-> "int", v |-> 1]>>
                     /\ k.response.count = 3

C8_Witness ==
    \E c \in DOMAIN call :
        /\ Finished(call[c])
        /\ call[c].tool = "recall_learnings"
        /\ call[c].result.returncode = 0
        /\ call[c].result.stdout = <<"[", "1", ",", "1", ",", "1", "]">>
        /\ call[c].response.count = 3

-----------------------------------------------------------------------------
(* The two variants of a response.                                         *)
IsFailure(r) ==
    /\ DOMAIN r = {"success", "error", "stdout"}
    /\ r.success = FALSE

IsSuccess(r) ==
    /\ DOMAIN r \in { {"success", "message"}, {"success", "raw_output"},
                      {"success", "learnings", "count"},
                      {"success", "artifacts", "count"} }
    /\ r.success = TRUE

(* C9.  Every response a tool returns, on every path, is either a Failure  *)
(* with an error string and the raw stdout and no payload, or a Success    *)
(* with exactly one payload and no error.                                  *)
C9_ExactlyOneVariant ==
    \A c \in DOMAIN call :
        call[c].pc = "returned" =>
            IsFailure(call[c].response) \/ IsSuccess(call[c].response)

-----------------------------------------------------------------------------
(* What a call's own parameters and process result make of its response,  *)
(* and what one step may change.                                           *)
OwnResponse(k) ==
    IF k.result.kind = "completed"
    THEN ToolResponse(k.tool, k.result)
    ELSE ToolArgs(k.tool, k.params).response

CallsIndependent ==
    \A c \in DOMAIN call :
        LET k == call[c]
        IN  /\ k.spawned > 0 => server = "serving" /\ k.cwd = OPC_DIR
            /\ k.pc = "returned" => k.response = OwnResponse(k)
            /\ k.pc \in {"running", "returned"} /\ PassesValidation(k) =>
                   k.cmd = run_opc_script(ToolArgs(k.tool, k.params).script,
                                          ToolArgs(k.tool, k.params).args).cmd

OneCallPerStep ==
    /\ server = "serving" => OPC_DIR' = OPC_DIR
    /\ \A c, d \in DOMAIN call :
         c # d /\ call'[c] # call[c] => call'[d] = call[d]

(* C10.  Overlapping calls share no mutable state: OPC_DIR, once resolved, *)
(* is never modified and is the working directory of every spawned         *)
(* process; a step of one call changes no other call; a call's response is *)
(* the tool's function of its own parameters and its own process result.   *)
C10_NoSharedMutableState == []CallsIndependent /\ [][OneCallPerStep]_vars

C10_Witness ==
    \E c, d \in DOMAIN call :
        /\ c # d
        /\ call[c].pc = "running"
        /\ call[c].tool = "recall_learnings"
        /\ Finished(call[d])
        /\ call[d].tool = "query_artifacts"
        /\ call[d].result.returncode = 1
        /\ call[d].cwd = OPC_DIR
        /\ call[c].cwd = OPC_DIR

====
